---- MODULE Spec2Model ----
(***************************************************************************)
(* Model of src/race_economy.py: the post-race reward settlement engine    *)
(* (trophies, coins, exp, ranks) and the server flow of its docstring      *)
(* (pre-deduction at race start, settlement at finish, nothing on          *)
(* disconnect).                                                            *)
(*                                                                         *)
(* Numbers.  Python ints are TLA+ integers.  Python floats are modelled as *)
(* fixed-point numbers: the integer x stands for the real x / SCALE.       *)
(* Products and quotients are rounded to the nearest representable value,  *)
(* math.exp and math.pow are evaluated by range reduction and a Taylor     *)
(* series, and round() is round-half-to-even as in Python 3.  Every        *)
(* arithmetic step is monotone in its arguments, as IEEE-754 arithmetic    *)
(* is.  The values agree with the floats to about two decimal places.        *)
(***************************************************************************)
EXTENDS Integers, Sequences, FiniteSets, TLC

\* --------------------------------------------------------------------------
\* Bounds of the model
\* --------------------------------------------------------------------------
MaxPlayers == 3

\* Start-of-race ratings the snapshots are drawn from: just below and on the
\* "Bronze I" threshold (250), and a far opponent on the "Silver I" threshold.
RatingValues == {245, 250, 1000}

\* --------------------------------------------------------------------------
\* Fixed-point arithmetic standing for the floats of the code
\* --------------------------------------------------------------------------
SCALE == 10 * 10 * 10

Max2(a, b) == IF a >= b THEN a ELSE b
Min2(a, b) == IF a <= b THEN a ELSE b
Abs(a) == IF a < 0 THEN -a ELSE a

\* a / b rounded to the nearest integer (b > 0)
DivR(a, b) == (2 * a + b) \div (2 * b)

\* fixed-point product and quotient; the product is split as
\* a = q * SCALE + r so that intermediate values stay small
MulFx(a, b) == (a \div SCALE) * b + DivR((a % SCALE) * b, SCALE)
DivFx(a, b) == DivR(a * SCALE, b)

\* int -> float
ToFx(n) == n * SCALE

\* Python 3 round(): nearest integer, ties to the even one
RoundHalfEven(x) ==
    LET f == x \div SCALE
        r == x - f * SCALE
    IN  IF 2 * r < SCALE THEN f
        ELSE IF 2 * r > SCALE THEN f + 1
        ELSE IF f % 2 = 0 THEN f ELSE f + 1

\* math.exp: exp(x) = exp(x/2)^2 until |x| <= 1/2, then the Taylor series
RECURSIVE Exp(_)
Exp(x) ==
    IF 2 * Abs(x) > SCALE
    THEN LET h == Exp(DivR(x, 2)) IN MulFx(h, h)
    ELSE LET x2 == MulFx(x, x)
             x3 == MulFx(x2, x)
             x4 == MulFx(x3, x)
             x5 == MulFx(x4, x)
         IN  SCALE + x + DivR(x2, 2) + DivR(x3, 6) + DivR(x4, 24) + DivR(x5, 120)

\* ln(10) = 2.302585...
LN10 == DivR(2302585, SCALE)

\* math.pow(10.0, y)
Pow10(y) == Exp(MulFx(y, LN10))

\* --------------------------------------------------------------------------
\* Optional values: None is the empty tuple, a value v is <<v>>
\* --------------------------------------------------------------------------
None == << >>
Some(v) == <<v>>
IsNone(o) == Len(o) = 0
Get(o) == o[1]

\* --------------------------------------------------------------------------
\* Rank thresholds (inclusive)
\* --------------------------------------------------------------------------
RANK_THRESHOLDS ==
    << <<0, "Unranked">>,
       <<250, "Bronze I">>,
       <<500, "Bronze II">>,
       <<750, "Bronze III">>,
       <<1000, "Silver I">>,
       <<1250, "Silver II">>,
       <<1500, "Silver III">>,
       <<1750, "Gold I">>,
       <<2000, "Gold II">>,
       <<2250, "Gold III">>,
       <<2500, "Platinum I">>,
       <<2750, "Platinum II">>,
       <<3000, "Platinum III">>,
       <<3250, "Diamond I">>,
       <<3500, "Diamond II">>,
       <<3750, "Diamond III">>,
       <<4000, "Master I">>,
       <<4250, "Master II">>,
       <<4500, "Master III">>,
       <<4750, "Champion I">>,
       <<5000, "Champion II">>,
       <<5250, "Champion III">>,
       <<5500, "Ascendant I">>,
       <<5750, "Ascendant II">>,
       <<6000, "Ascendant III">>,
       <<6250, "Hypersonic I">>,
       <<6500, "Hypersonic II">>,
       <<7000, "Hypersonic III">> >>

RANK_LABELS == [k \in 1..Len(RANK_THRESHOLDS) |-> RANK_THRESHOLDS[k][2]]

\* the thresholds taken as exclusive
get_rank_for_trophies_exclusive(trophies) ==
    LET hits == {k \in 1..Len(RANK_THRESHOLDS) : trophies > RANK_THRESHOLDS[k][1]}
    IN  IF hits = {} THEN "Unranked"
        ELSE RANK_THRESHOLDS[CHOOSE k \in hits : \A m \in hits : m <= k][2]

\* for threshold, name in reversed(RANK_THRESHOLDS): first with trophies >= threshold
get_rank_for_trophies(trophies) ==
    LET hits == {k \in 1..Len(RANK_THRESHOLDS) : trophies >= RANK_THRESHOLDS[k][1]}
    IN  IF hits = {} THEN "Unranked"
        ELSE RANK_THRESHOLDS[CHOOSE k \in hits : \A m \in hits : m <= k][2]

\* --------------------------------------------------------------------------
\* TrophyConfig() defaults
\* --------------------------------------------------------------------------
Infinity == 2147483647

TrophyConfig ==
    [ D |-> 700,
      TAU |-> 600,
      W_MIN |-> DivR(20 * SCALE, 100),
      PER_PAIR_CLIP |-> ToFx(8),
      CLAMP_MIN |-> -40,
      CLAMP_MAX |-> 40,
      base_k_breakpoints |->
          << <<2000, 48>>, <<4000, 40>>, <<6000, 32>>, <<7000, 24>>,
             <<8000, 12>>, <<9000, 10>>, <<10000, 8>>, <<Infinity, 6>> >>,
      soft_ceiling_start |-> 7000,
      soft_ceiling_lambda_inv |-> 2000 ]

\* --------------------------------------------------------------------------
\* Trophies: Elo-like multi-opponent calculation
\* --------------------------------------------------------------------------
\* K of the first breakpoint with r < bound
base_k(r, cfg) ==
    LET bp == cfg.base_k_breakpoints
        hits == {k \in 1..Len(bp) : r < bp[k][1]}
    IN  IF hits = {} THEN bp[Len(bp)][2]
        ELSE bp[CHOOSE k \in hits : \A m \in hits : k <= m][2]

\* exp(-lambda * max(0, r - start)), lambda = 1 / soft_ceiling_lambda_inv
high_rank_damping(r, cfg) ==
    LET over == Max2(0, r - cfg.soft_ceiling_start)
    IN  Exp(-DivR(ToFx(over), cfg.soft_ceiling_lambda_inv))

\* 1 / (1 + 10^((rb - ra) / D))
expected(ra, rb, cfg) ==
    DivFx(SCALE, SCALE + Pow10(DivR(ToFx(rb - ra), cfg.D)))

RECURSIVE SumOver(_, _)
SumOver(f, S) ==
    IF S = {} THEN 0
    ELSE LET j == CHOOSE j \in S : TRUE IN f[j] + SumOver(f, S \ {j})

\* ratings is a function on 0..n-1, as the Python list is indexed
precompute_for_player(i, ratings, cfg) ==
    LET idx == DOMAIN ratings
        n == Cardinality(idx)
        ri == ratings[i]
        raw == [j \in idx |->
                  IF j = i THEN 0
                  ELSE LET dist == Abs(ratings[j] - ri)
                           w == Exp(-DivR(ToFx(dist), cfg.TAU))
                       IN  IF w < cfg.W_MIN THEN cfg.W_MIN ELSE w]
        total == SumOver(raw, idx)
        w_norm == IF total > 0
                  THEN [j \in idx |-> IF j # i THEN DivFx(raw[j], total) ELSE 0]
                  ELSE [j \in idx |-> IF j = i THEN 0 ELSE DivFx(SCALE, ToFx(n - 1))]
        E == [j \in idx |-> IF j # i THEN expected(ri, ratings[j], cfg) ELSE 0]
    IN  [K |-> base_k(ri, cfg), H |-> high_rank_damping(ri, cfg), w |-> w_norm, E |-> E]

\* Result of a call: a returned value, or a raised exception (its class is
\* the condition a caller can catch on; msg is the text it carries)
Return(v) == [exc |-> "", msg |-> "", val |-> Some(v)]
Raise(e, m) == [exc |-> e, msg |-> m, val |-> None]
Raised(r) == r.exc # ""

\* the elements of seq[:k] (Python slice: k past the end is the whole list,
\* negative k counts from the end)
SlicePrefixSet(seq, k) ==
    LET m == IF k < 0 THEN Max2(0, Len(seq) + k) ELSE Min2(k, Len(seq))
    IN  {seq[p] : p \in 1..m}

\* i in finish_order
Contains(seq, i) == \E p \in 1..Len(seq) : seq[p] = i

\* finish_order.index(i), 0-based
IndexOf(seq, i) == (CHOOSE p \in 1..Len(seq) : seq[p] = i /\ \A q \in 1..(p - 1) : seq[q] # i) - 1

\* off by one: finish_order[:pos_i - 1]
finished_before_i_off_by_one(i, finish_order, place_index_for_i) ==
    IF Contains(finish_order, i)
    THEN SlicePrefixSet(finish_order, IndexOf(finish_order, i) - 1)
    ELSE SlicePrefixSet(finish_order, Get(place_index_for_i))

\* set(finish_order[:pos_i]), or set(finish_order[:place_index_for_i])
finished_before_i(i, finish_order, place_index_for_i) ==
    IF Contains(finish_order, i)
    THEN SlicePrefixSet(finish_order, IndexOf(finish_order, i))
    ELSE SlicePrefixSet(finish_order, Get(place_index_for_i))

\* the score taken as 1 against an opponent who finished before the player
pair_contribution_score_inverted(j, finished_before, pre, cfg) ==
    LET Sij == IF j \in finished_before THEN SCALE ELSE 0
        d == MulFx(MulFx(MulFx(ToFx(pre.K), pre.H), pre.w[j]), Sij - pre.E[j])
    IN  IF d > cfg.PER_PAIR_CLIP THEN cfg.PER_PAIR_CLIP
        ELSE IF d < -cfg.PER_PAIR_CLIP THEN -cfg.PER_PAIR_CLIP
        ELSE d

\* K * H * w[j] * (Sij - E[j]) clipped to +-PER_PAIR_CLIP
pair_contribution(j, finished_before, pre, cfg) ==
    LET Sij == IF j \in finished_before THEN 0 ELSE SCALE
        d == MulFx(MulFx(MulFx(ToFx(pre.K), pre.H), pre.w[j]), Sij - pre.E[j])
    IN  IF d > cfg.PER_PAIR_CLIP THEN cfg.PER_PAIR_CLIP
        ELSE IF d < -cfg.PER_PAIR_CLIP THEN -cfg.PER_PAIR_CLIP
        ELSE d

\* if delta < CLAMP_MIN: delta = CLAMP_MIN; if delta > CLAMP_MAX: delta = CLAMP_MAX
clamp_delta_upper_only(delta, cfg) ==
    IF delta > cfg.CLAMP_MAX THEN cfg.CLAMP_MAX ELSE delta

clamp_delta(delta, cfg) ==
    IF delta < cfg.CLAMP_MIN THEN cfg.CLAMP_MIN
    ELSE IF delta > cfg.CLAMP_MAX THEN cfg.CLAMP_MAX
    ELSE delta

delta_at_finish_using_i(i, finish_order, pre, ratings_count, cfg, place_index_for_i) ==
    IF ~Contains(finish_order, i) /\ IsNone(place_index_for_i)
    THEN Raise("ValueError", "i not in finish_order; provide place_index_for_i.")
    ELSE LET finished_before == finished_before_i(i, finish_order, place_index_for_i)
             opp == (0..(ratings_count - 1)) \ {i}
             total == SumOver([j \in opp |-> pair_contribution(j, finished_before, pre, cfg)], opp)
             delta == RoundHalfEven(total)
         IN  Return(clamp_delta(delta, cfg))

calculate_trophies(player_index, finish_order, ratings, cfg, place_index_for_i) ==
    LET pre == precompute_for_player(player_index, ratings, cfg)
    IN  delta_at_finish_using_i(player_index, finish_order, pre,
                                Cardinality(DOMAIN ratings), cfg, place_index_for_i)

\* --------------------------------------------------------------------------
\* Coins: caps x difficulty x booster, rounded
\* --------------------------------------------------------------------------
COIN_CAPS_BY_RANK ==
    ("Unranked" :> <<2000, 1500, 1200, 900, 900, 900, 900, 900>>) @@
    ("Bronze I" :> <<2200, 1650, 1300, 1000, 1000, 1000, 1000, 1000>>) @@
    ("Bronze II" :> <<2500, 1900, 1500, 1100, 1100, 1100, 1100, 1100>>) @@
    ("Bronze III" :> <<2800, 2100, 1700, 1300, 1300, 1300, 1300, 1300>>) @@
    ("Silver I" :> <<3100, 2300, 1900, 1400, 1400, 1400, 1400, 1400>>) @@
    ("Silver II" :> <<3500, 2600, 2100, 1600, 1600, 1600, 1600, 1600>>) @@
    ("Silver III" :> <<3900, 2900, 2300, 1800, 1800, 1800, 1800, 1800>>) @@
    ("Gold I" :> <<4300, 3200, 2600, 1900, 1900, 1900, 1900, 1900>>) @@
    ("Gold II" :> <<4800, 3600, 2900, 2200, 2200, 2200, 2200, 2200>>) @@
    ("Gold III" :> <<5400, 4100, 3200, 2400, 2400, 2400, 2400, 2400>>) @@
    ("Platinum I" :> <<6000, 4500, 3600, 2700, 2700, 2700, 2700, 2700>>) @@
    ("Platinum II" :> <<6700, 5000, 4000, 3000, 3000, 3000, 3000, 3000>>) @@
    ("Platinum III" :> <<7500, 5600, 4500, 3400, 3400, 3400, 3400, 3400>>) @@
    ("Diamond I" :> <<8400, 6300, 5000, 3800, 3800, 3800, 3800, 3800>>) @@
    ("Diamond II" :> <<9400, 7100, 5600, 4200, 4200, 4200, 4200, 4200>>) @@
    ("Diamond III" :> <<10500, 7900, 6300, 4700, 4700, 4700, 4700, 4700>>) @@
    ("Master I" :> <<11800, 8900, 7100, 5300, 5300, 5300, 5300, 5300>>) @@
    ("Master II" :> <<13200, 9900, 7900, 5900, 5900, 5900, 5900, 5900>>) @@
    ("Master III" :> <<14800, 11100, 8900, 6600, 6600, 6600, 6600, 6600>>) @@
    ("Champion I" :> <<16600, 12400, 10000, 7500, 7500, 7500, 7500, 7500>>) @@
    ("Champion II" :> <<18600, 14000, 11200, 8400, 8400, 8400, 8400, 8400>>) @@
    ("Champion III" :> <<20900, 15700, 12500, 9400, 9400, 9400, 9400, 9400>>) @@
    ("Ascendant I" :> <<23400, 17600, 14000, 10500, 10500, 10500, 10500, 10500>>) @@
    ("Ascendant II" :> <<26200, 19700, 15700, 11800, 11800, 11800, 11800, 11800>>) @@
    ("Ascendant III" :> <<29400, 22100, 17600, 13200, 13200, 13200, 13200, 13200>>) @@
    ("Hypersonic I" :> <<32900, 24700, 19700, 14800, 14800, 14800, 14800, 14800>>) @@
    ("Hypersonic II" :> <<36900, 27700, 22100, 16600, 16600, 16600, 16600, 16600>>) @@
    ("Hypersonic III" :> <<41300, 31000, 24800, 18600, 18600, 18600, 18600, 18600>>)

\* CoinConfig(rank_max_by_place=table): the other fields at their defaults
CoinConfig(table) ==
    [ rank_max_by_place |-> table,
      difficulty_floor |-> DivR(85 * SCALE, 100),
      difficulty_ceiling |-> DivR(115 * SCALE, 100),
      round_to |-> 100,
      booster_multiplier |-> ToFx(1) ]

\* a default row substituted for a missing key
DictGetOrDefaultRow(d, key) ==
    IF key \in DOMAIN d THEN d[key]
    ELSE IF "Unranked" \in DOMAIN d THEN d["Unranked"]
    ELSE << >>

\* dict.get(key): None and the empty list are both falsy and both << >> here
DictGet(d, key) == IF key \in DOMAIN d THEN d[key] ELSE << >>

\* the expectations summed without their weights
avg_expected_unweighted(i, ratings, cfg) ==
    LET pre == precompute_for_player(i, ratings, cfg)
        opp == DOMAIN ratings \ {i}
    IN  SumOver([j \in opp |-> pre.E[j]], opp)

avg_expected_vs_lobby(i, ratings, cfg) ==
    LET pre == precompute_for_player(i, ratings, cfg)
        opp == DOMAIN ratings \ {i}
    IN  SumOver([j \in opp |-> MulFx(pre.w[j], pre.E[j])], opp)

difficulty_multiplier(avg_E, floor, ceiling) ==
    LET half == SCALE \div 2
        x == DivFx(Max2(-half, Min2(half, half - avg_E)), half)
    IN  IF x >= 0
        THEN SCALE + MulFx(x, ceiling - SCALE)
        ELSE SCALE + MulFx(x, SCALE - floor)

\* the amount rounded to a whole coin instead of to round_to
calculate_coins_rounded_to_one(rank_label, place, lobby_ratings, player_index, coin_cfg, trophy_cfg) ==
    IF IsNone(coin_cfg.rank_max_by_place)
    THEN Raise("ValueError", "CoinConfig.rank_max_by_place must be provided.")
    ELSE LET caps == DictGet(Get(coin_cfg.rank_max_by_place), rank_label)
         IN  IF Len(caps) = 0 \/ ~(1 <= place /\ place <= Len(caps))
             THEN Raise("KeyError", "Missing caps for rank or invalid place")
             ELSE LET max_for_place == ToFx(caps[place])
                      avgE == avg_expected_vs_lobby(player_index, lobby_ratings, trophy_cfg)
                      mult == difficulty_multiplier(avgE, coin_cfg.difficulty_floor,
                                                    coin_cfg.difficulty_ceiling)
                      raw == MulFx(MulFx(max_for_place, mult), coin_cfg.booster_multiplier)
                  IN  Return(Max2(0, RoundHalfEven(raw)))

calculate_coins(rank_label, place, lobby_ratings, player_index, coin_cfg, trophy_cfg) ==
    IF IsNone(coin_cfg.rank_max_by_place)
    THEN Raise("ValueError", "CoinConfig.rank_max_by_place must be provided.")
    ELSE LET caps == DictGet(Get(coin_cfg.rank_max_by_place), rank_label)
         IN  IF Len(caps) = 0 \/ ~(1 <= place /\ place <= Len(caps))
             THEN Raise("KeyError", "Missing caps for rank or invalid place")
             ELSE LET max_for_place == ToFx(caps[place])
                      avgE == avg_expected_vs_lobby(player_index, lobby_ratings, trophy_cfg)
                      mult == difficulty_multiplier(avgE, coin_cfg.difficulty_floor,
                                                    coin_cfg.difficulty_ceiling)
                      raw == MulFx(MulFx(max_for_place, mult), coin_cfg.booster_multiplier)
                      rounded == RoundHalfEven(DivR(raw, coin_cfg.round_to)) * coin_cfg.round_to
                  IN  Return(Max2(0, rounded))

\* --------------------------------------------------------------------------
\* Exp: per-rank caps, or formula fallback
\* --------------------------------------------------------------------------
\* the per-place multipliers, in millionths
MILLION == 1000 * 1000
exp_place_mults == <<1200000, 1142857, 1085714, 1028571, 971429, 914286, 857143, 800000>>

\* a / b rounded to the nearest integer, ties to even (b > 0)
RoundDivHalfEven(a, b) ==
    LET f == a \div b
        r == a - f * b
    IN  IF 2 * r < b THEN f
        ELSE IF 2 * r > b THEN f + 1
        ELSE IF f % 2 = 0 THEN f ELSE f + 1

\* index of the label in RANK_LABELS (0-based), 0 when absent
RankLabelIndex(rank_label) ==
    IF \E k \in 1..Len(RANK_LABELS) : RANK_LABELS[k] = rank_label
    THEN (CHOOSE k \in 1..Len(RANK_LABELS) : RANK_LABELS[k] = rank_label) - 1
    ELSE 0

\* base_min + (base_max - base_min) * (idx / steps)
exp_base_for_rank(rank_label, base_min, base_max) ==
    LET idx == RankLabelIndex(rank_label)
        steps == Max2(1, Len(RANK_LABELS) - 1)
    IN  ToFx(base_min) + DivR(ToFx((base_max - base_min) * idx), steps)

\* int(round(_exp_base_for_rank(r) * m)) for each place multiplier m; the
\* product is formed in millionths, split as base = q * SCALE + rem
EXP_CAPS_BY_RANK ==
    [r \in {RANK_LABELS[k] : k \in 1..Len(RANK_LABELS)} |->
        [p \in 1..Len(exp_place_mults) |->
            LET base == exp_base_for_rank(r, 100, 208)
                prod == (base \div SCALE) * exp_place_mults[p]
                          + DivR((base % SCALE) * exp_place_mults[p], SCALE)
            IN  RoundDivHalfEven(prod, MILLION)]]

\* ExpConfig(rank_place_caps=table): the other fields at their defaults
ExpConfig(table) ==
    [ base_min |-> 100,
      base_max |-> 208,
      pos_min_mult |-> DivR(80 * SCALE, 100),
      pos_max_mult |-> DivR(120 * SCALE, 100),
      booster_multiplier |-> ToFx(1),
      rank_place_caps |-> table ]

\* the booster not applied in table mode
calculate_exp_table_unboosted(trophies, place, total_positions, cfg, rank_label) ==
    IF ~IsNone(cfg.rank_place_caps) /\ ~IsNone(rank_label)
    THEN LET caps == DictGet(Get(cfg.rank_place_caps), Get(rank_label))
         IN  IF Len(caps) = 0 \/ ~(1 <= place /\ place <= Len(caps))
             THEN Raise("KeyError", "Missing EXP caps for rank or invalid place")
             ELSE Return(Max2(0, caps[place]))
    ELSE Return(0)

calculate_exp(trophies, place, total_positions, cfg, rank_label) ==
    IF ~IsNone(cfg.rank_place_caps) /\ ~IsNone(rank_label)
    THEN LET caps == DictGet(Get(cfg.rank_place_caps), Get(rank_label))
         IN  IF Len(caps) = 0 \/ ~(1 <= place /\ place <= Len(caps))
             THEN Raise("KeyError", "Missing EXP caps for rank or invalid place")
             ELSE Return(Max2(0, RoundHalfEven(MulFx(ToFx(caps[place]), cfg.booster_multiplier))))
    ELSE LET t == Max2(0, Min2(SCALE, DivR(ToFx(trophies), 7000)))
             base == ToFx(cfg.base_min) + MulFx(ToFx(cfg.base_max - cfg.base_min), t)
             pos_mult == IF total_positions > 1
                         THEN LET frac == DivR(ToFx(place - 1), total_positions - 1)
                              IN  cfg.pos_max_mult + MulFx(cfg.pos_min_mult - cfg.pos_max_mult, frac)
                         ELSE SCALE
         IN  Return(Max2(0, RoundHalfEven(MulFx(MulFx(base, pos_mult), cfg.booster_multiplier))))

\* --------------------------------------------------------------------------
\* Trophy pre-deduction (quit-proofing)
\* --------------------------------------------------------------------------
\* the player put first instead of last
synthetic_first_place_finish_order(n, player_index) ==
    [p \in 1..n |-> IF p = 1 THEN player_index
                    ELSE IF p - 2 < player_index THEN p - 2 ELSE p - 1]

\* [j for j in range(n) if j != player_index] + [player_index]
synthetic_last_place_finish_order(n, player_index) ==
    [p \in 1..n |-> IF p = n THEN player_index
                    ELSE IF p - 1 < player_index THEN p - 1 ELSE p]

calculate_last_place_delta(player_index, ratings, trophy_cfg) ==
    LET order == synthetic_last_place_finish_order(Cardinality(DOMAIN ratings), player_index)
    IN  calculate_trophies(player_index, order, ratings, trophy_cfg, None)

\* the pre-deduction not subtracted
settle_trophies_no_offset(player_index, finish_order, ratings, trophy_cfg, last_place_delta_applied, place_index_for_i) ==
    LET actual == calculate_trophies(player_index, finish_order, ratings, trophy_cfg,
                                     place_index_for_i)
    IN  IF Raised(actual) THEN actual
        ELSE Return([actual_trophies_delta |-> Get(actual.val),
                     settlement_delta |-> Get(actual.val)])

\* the pre-deduction added instead of subtracted
settle_trophies_wrong_sign(player_index, finish_order, ratings, trophy_cfg, last_place_delta_applied, place_index_for_i) ==
    LET actual == calculate_trophies(player_index, finish_order, ratings, trophy_cfg,
                                     place_index_for_i)
    IN  IF Raised(actual) THEN actual
        ELSE Return([actual_trophies_delta |-> Get(actual.val),
                     settlement_delta |-> Get(actual.val) + last_place_delta_applied])

settle_trophies_after_finish(player_index, finish_order, ratings, trophy_cfg, last_place_delta_applied, place_index_for_i) ==
    LET actual == calculate_trophies(player_index, finish_order, ratings, trophy_cfg,
                                     place_index_for_i)
    IN  IF Raised(actual) THEN actual
        ELSE Return([actual_trophies_delta |-> Get(actual.val),
                     settlement_delta |-> Get(actual.val) - last_place_delta_applied])

\* --------------------------------------------------------------------------
\* Orchestrator (finish-time single call)
\* --------------------------------------------------------------------------
\* the "return 0" inside the loop: only the first entry is ever compared
rank_index_first_entry_only(name) ==
    IF RANK_THRESHOLDS[1][2] = name THEN 0 ELSE 0

\* _rank_index: position in RANK_THRESHOLDS (0-based), 0 when absent
rank_index(name) ==
    LET hits == {k \in 1..Len(RANK_THRESHOLDS) : RANK_THRESHOLDS[k][2] = name}
    IN  IF hits = {} THEN 0
        ELSE (CHOOSE k \in hits : \A m \in hits : k <= m) - 1

\* exp_cfg.rank_place_caps or EXP_CAPS_BY_RANK  (None and {} are falsy)
OrDefaultCaps(caps) ==
    IF IsNone(caps) THEN Some(EXP_CAPS_BY_RANK)
    ELSE IF DOMAIN Get(caps) = {} THEN Some(EXP_CAPS_BY_RANK)
    ELSE caps

\* the overridden field written into the shared instance itself
replace_in_place(obj, changes) ==
    LET m == [f \in DOMAIN obj |-> IF f \in DOMAIN changes THEN changes[f] ELSE obj[f]]
    IN  [original |-> m, copy |-> m]

\* dataclasses.replace(obj, **changes): a new instance with the fields
\* overridden; original is the instance passed in as the call leaves it
replace(obj, changes) ==
    [ original |-> obj,
      copy |-> [f \in DOMAIN obj |-> IF f \in DOMAIN changes THEN changes[f] ELSE obj[f]] ]

\* booster_multiplier=(2.0 if inp.has_coin_booster else 1.0)
coin_cfg_changes(inp) ==
    [booster_multiplier |-> IF inp.has_coin_booster THEN ToFx(2) ELSE ToFx(1)]

\* rank_place_caps=(exp_cfg.rank_place_caps or EXP_CAPS_BY_RANK),
\* booster_multiplier=(2.0 if inp.has_exp_booster else 1.0)
exp_cfg_changes(inp, exp_cfg) ==
    [ rank_place_caps |-> OrDefaultCaps(exp_cfg.rank_place_caps),
      booster_multiplier |-> IF inp.has_exp_booster THEN ToFx(2) ELSE ToFx(1) ]

\* the caller's coin_cfg and exp_cfg instances after the orchestrator has run
configs_after_call(inp, coin_cfg, exp_cfg) ==
    [ coin_cfg |-> replace(coin_cfg, coin_cfg_changes(inp)).original,
      exp_cfg |-> replace(exp_cfg, exp_cfg_changes(inp, exp_cfg)).original ]

compute_race_rewards_with_prededuction(inp, trophy_cfg, coin_cfg, exp_cfg) ==
    LET old_trophies == inp.ratings[inp.player_index]
        old_rank == get_rank_for_trophies(old_trophies)
        rank_label_for_payouts == old_rank
        coin_cfg_local == replace(coin_cfg, coin_cfg_changes(inp)).copy
        exp_cfg_local == replace(exp_cfg, exp_cfg_changes(inp, exp_cfg)).copy
        settle == settle_trophies_after_finish(inp.player_index, inp.finish_order, inp.ratings,
                                               trophy_cfg, inp.last_place_delta_applied,
                                               inp.place_index_for_i)
        coins_amount == calculate_coins(rank_label_for_payouts, inp.place, inp.ratings,
                                        inp.player_index, coin_cfg_local, trophy_cfg)
        exp_amount == calculate_exp(old_trophies, inp.place, inp.total_positions,
                                    exp_cfg_local, Some(rank_label_for_payouts))
    IN  IF Raised(settle) THEN settle
        ELSE IF Raised(coins_amount) THEN coins_amount
        ELSE IF Raised(exp_amount) THEN exp_amount
        ELSE LET new_trophies == old_trophies + Get(settle.val).settlement_delta
                 new_rank == get_rank_for_trophies(new_trophies)
             IN  Return([trophies_actual |-> Get(settle.val).actual_trophies_delta,
                         trophies_settlement |-> Get(settle.val).settlement_delta,
                         coins |-> Get(coins_amount.val),
                         exp |-> Get(exp_amount.val),
                         old_rank |-> old_rank,
                         new_rank |-> new_rank,
                         promoted |-> rank_index(new_rank) > rank_index(old_rank),
                         demoted |-> rank_index(new_rank) < rank_index(old_rank),
                         pre_deducted_last |-> inp.last_place_delta_applied])

\* --------------------------------------------------------------------------
\* The server flow around the engine (module docstring, SERVER FLOW)
\* --------------------------------------------------------------------------
VARIABLES
    ratings,        \* start-of-race snapshot, immutable for the race
    player_index,   \* the player this record is about
    phase,          \* "lobby", "racing", "finished", "failed", "disconnected"
    trophies,       \* DB: the player's trophies
    coins,          \* DB: the player's coins
    xp,             \* DB: the player's xp
    last_delta,     \* persisted with the match: the pre-deduction applied at start
    inp,            \* inputs of the finish-time call (None before it)
    out,            \* its result (None before it)
    coin_cfg,       \* the shared CoinConfig instance (ccfg)
    exp_cfg,        \* the shared ExpConfig instance (xcfg)
    call            \* the last direct call of an engine entry point (None if none)

vars == <<ratings, player_index, phase, trophies, coins, xp, last_delta, inp, out,
          coin_cfg, exp_cfg, call>>

\* all orders of the elements of S
RECURSIVE Perms(_)
Perms(S) ==
    IF S = {} THEN {<< >>}
    ELSE UNION {{<<e>> \o q : q \in Perms(S \ {e})} : e \in S}

Init ==
    /\ \E n \in 2..MaxPlayers : ratings \in [0..(n - 1) -> RatingValues]
    /\ player_index \in DOMAIN ratings
    /\ phase = "lobby"
    /\ trophies = ratings[player_index]
    /\ coins = 0
    /\ xp = 0
    /\ last_delta = 0
    /\ inp = None
    /\ out = None
    /\ coin_cfg = CoinConfig(Some(COIN_CAPS_BY_RANK))
    /\ exp_cfg = ExpConfig(Some(EXP_CAPS_BY_RANK))
    /\ call = None

\* RACE START: last_delta = calculate_last_place_delta(...); trophies += last_delta
RaceStart ==
    /\ phase = "lobby"
    /\ LET d == Get(calculate_last_place_delta(player_index, ratings, TrophyConfig).val)
       IN  /\ last_delta' = d
           /\ trophies' = trophies + d
    /\ phase' = "racing"
    /\ UNCHANGED <<ratings, player_index, coins, xp, inp, out, coin_cfg, exp_cfg, call>>

\* the finish orders a race can report for the player: a permutation of all
\* participants, or (non-finisher) a permutation of the others
FinishOrders == Perms(DOMAIN ratings) \cup Perms(DOMAIN ratings \ {player_index})

\* the place the caller passes: finish_order.index(i) + 1, or the place
\* index given for a non-finisher + 1 (1 when there is neither)
PlaceOf(finish_order, place_index_for_i) ==
    IF Contains(finish_order, player_index) THEN IndexOf(finish_order, player_index) + 1
    ELSE IF IsNone(place_index_for_i) THEN 1
    ELSE Get(place_index_for_i) + 1

\* RACE FINISH: results = compute_race_rewards_with_prededuction(...);
\* one transaction: trophies += settlement, coins += coins, xp += exp
RaceFinish ==
    /\ phase = "racing"
    /\ \E finish_order \in FinishOrders,
          place_index_for_i \in {None} \cup {Some(k) : k \in 0..(Cardinality(DOMAIN ratings) - 1)},
          has_coin_booster \in BOOLEAN, has_exp_booster \in BOOLEAN :
         /\ Contains(finish_order, player_index) => IsNone(place_index_for_i)
         /\ LET i == [player_index |-> player_index,
                      finish_order |-> finish_order,
                      ratings |-> ratings,
                      place |-> PlaceOf(finish_order, place_index_for_i),
                      total_positions |-> Cardinality(DOMAIN ratings),
                      has_coin_booster |-> has_coin_booster,
                      has_exp_booster |-> has_exp_booster,
                      last_place_delta_applied |-> last_delta,
                      place_index_for_i |-> place_index_for_i]
            IN  \E results \in {compute_race_rewards_with_prededuction(i, TrophyConfig,
                                                                       coin_cfg, exp_cfg)} :
                  /\ inp' = Some(i)
                  /\ out' = Some(results)
                  /\ coin_cfg' = configs_after_call(i, coin_cfg, exp_cfg).coin_cfg
                  /\ exp_cfg' = configs_after_call(i, coin_cfg, exp_cfg).exp_cfg
                  /\ IF Raised(results)
                     THEN /\ phase' = "failed"
                          /\ UNCHANGED <<trophies, coins, xp>>
                     ELSE /\ phase' = "finished"
                          /\ trophies' = trophies + Get(results.val).trophies_settlement
                          /\ coins' = coins + Get(results.val).coins
                          /\ xp' = xp + Get(results.val).exp
    /\ UNCHANGED <<ratings, player_index, last_delta, call>>

\* NO FINISH (disconnect): do nothing at finish, the pre-deduction stands
Disconnect ==
    /\ phase = "racing"
    /\ phase' = "disconnected"
    /\ UNCHANGED <<ratings, player_index, trophies, coins, xp, last_delta, inp, out,
                   coin_cfg, exp_cfg, call>>

Next == RaceStart \/ RaceFinish \/ Disconnect

Spec == Init /\ [][Next]_vars

\* --------------------------------------------------------------------------
\* Direct calls of the engine's entry points (pure functions of their inputs)
\* --------------------------------------------------------------------------
\* 8-player lobbies: two in which the final clamp binds (an underdog against
\* seven strong opponents, a favourite against seven weak ones) and the
\* evenly-rated lobby of the smoke test
BigLobbies ==
    { [j \in 0..7 |-> IF j = 0 THEN 245 ELSE 1000],
      [j \in 0..7 |-> IF j = 0 THEN 1000 ELSE 245],
      [j \in 0..7 |-> 7000] }

IsSmallLobby == Cardinality(DOMAIN ratings) <= MaxPlayers

InitCalls ==
    /\ \/ \E n \in 2..MaxPlayers : ratings \in [0..(n - 1) -> RatingValues]
       \/ ratings \in BigLobbies
    /\ player_index \in DOMAIN ratings
    /\ phase = "lobby"
    /\ trophies = ratings[player_index]
    /\ coins = 0
    /\ xp = 0
    /\ last_delta = 0
    /\ inp = None
    /\ out = None
    /\ coin_cfg = CoinConfig(Some(COIN_CAPS_BY_RANK))
    /\ exp_cfg = ExpConfig(Some(EXP_CAPS_BY_RANK))
    /\ call = None

\* reverse of a sequence
Reverse(seq) == [p \in 1..Len(seq) |-> seq[Len(seq) + 1 - p]]

\* finish orders passed to direct calls: every order in a small lobby; in an
\* 8-player lobby the player last, the player first, and the player absent
CallOrders ==
    IF IsSmallLobby THEN FinishOrders
    ELSE LET last == synthetic_last_place_finish_order(Cardinality(DOMAIN ratings), player_index)
         IN  {last, Reverse(last), SubSeq(last, 1, Len(last) - 1)}

CallPlaceIndexes ==
    {None, Some(0), Some(1), Some(Cardinality(DOMAIN ratings) - 1)}

\* cap tables a configuration can carry: unset, the reference table, an empty
\* dict, a table with a single rank and two places, such a table with a cap
\* below zero
CoinTables ==
    [ unset |-> None,
      reference |-> Some(COIN_CAPS_BY_RANK),
      empty |-> Some([r \in {} |-> << >>]),
      partial |-> Some([r \in {"Unranked"} |-> <<2000, 1500>>]),
      negative |-> Some([r \in {"Unranked"} |-> <<-2000, 1500>>]) ]

ExpTables ==
    [ unset |-> None,
      reference |-> Some(EXP_CAPS_BY_RANK),
      empty |-> Some([r \in {} |-> << >>]),
      partial |-> Some([r \in {"Unranked"} |-> <<120, 114>>]),
      negative |-> Some([r \in {"Unranked"} |-> <<-120, 114>>]) ]

\* rank labels passed to direct calls ("Wood" is not a rank)
CallLabels == {"Unranked", "Bronze I", "Hypersonic III", "Wood"}

\* places passed to direct calls
CallPlaces == {0, 1, 2, 3, 8, 9}

CallCalculateTrophies ==
    /\ IsNone(call)
    /\ \E finish_order \in CallOrders, place_index_for_i \in CallPlaceIndexes :
         call' = Some([fn |-> "calculate_trophies",
                       finish_order |-> finish_order,
                       place_index_for_i |-> place_index_for_i,
                       ret |-> calculate_trophies(player_index, finish_order, ratings,
                                                  TrophyConfig, place_index_for_i)])
    /\ UNCHANGED <<ratings, player_index, phase, trophies, coins, xp, last_delta, inp, out,
                   coin_cfg, exp_cfg>>

CallCalculateCoins ==
    /\ IsNone(call)
    /\ \E rank_label \in CallLabels, place \in CallPlaces,
          table \in DOMAIN CoinTables, boosted \in BOOLEAN :
         call' = Some([fn |-> "calculate_coins",
                       rank_label |-> rank_label,
                       place |-> place,
                       table |-> table,
                       boosted |-> boosted,
                       ret |-> calculate_coins(rank_label, place, ratings, player_index,
                                  [CoinConfig(CoinTables[table]) EXCEPT !.booster_multiplier =
                                      IF boosted THEN ToFx(2) ELSE ToFx(1)],
                                  TrophyConfig)])
    /\ UNCHANGED <<ratings, player_index, phase, trophies, coins, xp, last_delta, inp, out,
                   coin_cfg, exp_cfg>>

CallCalculateExp ==
    /\ IsNone(call)
    /\ \E rank_label \in {None} \cup {Some(l) : l \in CallLabels}, place \in CallPlaces,
          table \in DOMAIN ExpTables, boosted \in BOOLEAN :
         call' = Some([fn |-> "calculate_exp",
                       rank_label |-> rank_label,
                       place |-> place,
                       table |-> table,
                       boosted |-> boosted,
                       ret |-> calculate_exp(ratings[player_index], place,
                                  Cardinality(DOMAIN ratings),
                                  [ExpConfig(ExpTables[table]) EXCEPT !.booster_multiplier =
                                      IF boosted THEN ToFx(2) ELSE ToFx(1)],
                                  rank_label)])
    /\ UNCHANGED <<ratings, player_index, phase, trophies, coins, xp, last_delta, inp, out,
                   coin_cfg, exp_cfg>>

\* the orchestrator called with a pre-deduction of 0 (the field's default) or
\* with the last-place delta of the snapshot
CallComputeRaceRewards ==
    /\ IsNone(call)
    /\ IsSmallLobby
    /\ \E finish_order \in Perms(DOMAIN ratings),
          applied \in {0, Get(calculate_last_place_delta(player_index, ratings, TrophyConfig).val)} :
         LET i == [player_index |-> player_index,
                   finish_order |-> finish_order,
                   ratings |-> ratings,
                   place |-> PlaceOf(finish_order, None),
                   total_positions |-> Cardinality(DOMAIN ratings),
                   has_coin_booster |-> FALSE,
                   has_exp_booster |-> FALSE,
                   last_place_delta_applied |-> applied,
                   place_index_for_i |-> None]
         IN  /\ call' = Some([fn |-> "compute_race_rewards_with_prededuction",
                              inp |-> i,
                              ret |-> compute_race_rewards_with_prededuction(i, TrophyConfig,
                                                                             coin_cfg, exp_cfg)])
             /\ coin_cfg' = configs_after_call(i, coin_cfg, exp_cfg).coin_cfg
             /\ exp_cfg' = configs_after_call(i, coin_cfg, exp_cfg).exp_cfg
    /\ UNCHANGED <<ratings, player_index, phase, trophies, coins, xp, last_delta, inp, out>>

NextCalls ==
    CallCalculateTrophies \/ CallCalculateCoins \/ CallCalculateExp \/ CallComputeRaceRewards

SpecCalls == InitCalls /\ [][NextCalls]_vars

\* --------------------------------------------------------------------------
\* The rank lookup called on one rating after another
\* --------------------------------------------------------------------------
\* ratings looked up: each threshold, the ratings next to it, ratings below
\* the lowest threshold and one above the highest
RankProbes ==
    {-300, -2, 7300}
      \cup UNION {{RANK_THRESHOLDS[k][1] - 1, RANK_THRESHOLDS[k][1], RANK_THRESHOLDS[k][1] + 1} :
                    k \in 1..Len(RANK_THRESHOLDS)}

InitRank ==
    /\ ratings \in [0..1 -> {250}]
    /\ player_index = 0
    /\ phase = "lobby"
    /\ trophies = ratings[player_index]
    /\ coins = 0
    /\ xp = 0
    /\ last_delta = 0
    /\ inp = None
    /\ out = None
    /\ coin_cfg = CoinConfig(Some(COIN_CAPS_BY_RANK))
    /\ exp_cfg = ExpConfig(Some(EXP_CAPS_BY_RANK))
    /\ call = None

\* get_rank_for_trophies(t); before keeps the rating and result of the call
\* made before this one (None for the first)
CallGetRank ==
    /\ \E t \in RankProbes :
         call' = Some([fn |-> "get_rank_for_trophies",
                       trophies |-> t,
                       ret |-> Return(get_rank_for_trophies(t)),
                       before |-> IF IsNone(call) THEN None
                                  ELSE Some([trophies |-> Get(call).trophies,
                                             ret |-> Get(call).ret])])
    /\ UNCHANGED <<ratings, player_index, phase, trophies, coins, xp, last_delta, inp, out,
                   coin_cfg, exp_cfg>>

NextRank == CallGetRank

SpecRank == InitRank /\ [][NextRank]_vars

\* --------------------------------------------------------------------------
\* The orchestrator called again and again for one race against the same
\* shared configuration instances (ccfg, xcfg), the booster flags varying
\* --------------------------------------------------------------------------
\* ratings of the lobbies of the repeated calls
ReplayRatingValues == {250, 1000}

\* xcfg as constructed by default (no table) or carrying the reference table;
\* the record is that of the first or of the last player of the lobby
InitReplay ==
    /\ \E n \in 2..MaxPlayers : ratings \in [0..(n - 1) -> ReplayRatingValues]
    /\ player_index \in {0, Cardinality(DOMAIN ratings) - 1}
    /\ phase = "lobby"
    /\ trophies = ratings[player_index]
    /\ coins = 0
    /\ xp = 0
    /\ last_delta = 0
    /\ inp = None
    /\ out = None
    /\ coin_cfg = CoinConfig(Some(COIN_CAPS_BY_RANK))
    /\ exp_cfg \in {ExpConfig(None), ExpConfig(Some(EXP_CAPS_BY_RANK))}
    /\ call = None

\* results = compute_race_rewards_with_prededuction(inp, tcfg, ccfg, xcfg):
\* the first call of a race picks its finish order, a later one repeats the
\* race with any booster flags; call keeps the first call, inp and out the latest
OrchestratorCall ==
    /\ phase \in {"racing", "called", "recalled"}
    /\ \E finish_order \in Perms(DOMAIN ratings),
          has_coin_booster \in BOOLEAN, has_exp_booster \in BOOLEAN :
         /\ ~IsNone(call) => finish_order = Get(call).inp.finish_order
         /\ LET i == [player_index |-> player_index,
                      finish_order |-> finish_order,
                      ratings |-> ratings,
                      place |-> PlaceOf(finish_order, None),
                      total_positions |-> Cardinality(DOMAIN ratings),
                      has_coin_booster |-> has_coin_booster,
                      has_exp_booster |-> has_exp_booster,
                      last_place_delta_applied |-> last_delta,
                      place_index_for_i |-> None]
            IN  \E results \in {compute_race_rewards_with_prededuction(i, TrophyConfig,
                                                                       coin_cfg, exp_cfg)} :
                  /\ inp' = Some(i)
                  /\ out' = Some(results)
                  /\ coin_cfg' = configs_after_call(i, coin_cfg, exp_cfg).coin_cfg
                  /\ exp_cfg' = configs_after_call(i, coin_cfg, exp_cfg).exp_cfg
                  /\ call' = IF IsNone(call)
                             THEN Some([fn |-> "compute_race_rewards_with_prededuction",
                                        inp |-> i, ret |-> results])
                             ELSE call
    /\ phase' = IF phase = "racing" THEN "called" ELSE "recalled"
    /\ UNCHANGED <<ratings, player_index, trophies, coins, xp, last_delta>>

NextReplay == RaceStart \/ OrchestratorCall

SpecReplay == InitReplay /\ [][NextReplay]_vars

\* ==========================================================================
\* Properties
\* ==========================================================================
Finished == phase = "finished"
Results == Get(Get(out).val)
Inputs == Get(inp)

CallIs(f) == ~IsNone(call) /\ Get(call).fn = f
Called == Get(call)

\* the rating a player who disconnects is left with
DisconnectRating == ratings[player_index] + last_delta

\* player p is the last element of a finish order naming every participant
FinishesLast(order, p) ==
    /\ Len(order) = Cardinality(DOMAIN ratings)
    /\ {order[q] : q \in 1..Len(order)} = DOMAIN ratings
    /\ order[Len(order)] = p

\* C1: with the pre-deduction last_place_delta(i, ratings) applied at race
\* start, a player who disconnects keeps start + pre-deduction, and a player
\* who finishes, in any position, never ends below that: the settlement is
\* never negative.
C1_QuitNeverBeatsFinishing ==
    /\ phase = "disconnected" => trophies = DisconnectRating
    /\ Finished => /\ Results.trophies_settlement >= 0
                   /\ Results.trophies_actual >= last_delta
                   /\ trophies >= DisconnectRating

\* a finisher who ends strictly above the rating a disconnect would have left
C1_Witness ==
    /\ Finished
    /\ last_delta < 0
    /\ trophies > DisconnectRating

\* C2: after race start (rating += pre-deduction) and race finish (rating +=
\* settlement), settlement = actual - pre-deduction and the rating equals the
\* start-of-race rating plus the actual delta.
C2_SettlementReconcilesPreDeduction ==
    Finished =>
        /\ Results.trophies_settlement = Results.trophies_actual - last_delta
        /\ Results.pre_deducted_last = last_delta
        /\ trophies = ratings[player_index] + Results.trophies_actual

\* a finished race with a non-zero pre-deduction and a non-zero settlement
C2_Witness ==
    /\ Finished
    /\ last_delta # 0
    /\ Results.trophies_settlement # 0
    /\ Results.trophies_actual # 0

\* C3: a player who finishes last, with the last-place delta of the same
\* snapshot pre-deducted, gets a settlement of exactly 0, and so ends with the
\* rating a disconnect would have left.
C3_LastPlaceSettlesToZero ==
    (Finished /\ FinishesLast(Inputs.finish_order, player_index)) =>
        /\ Results.trophies_settlement = 0
        /\ trophies = DisconnectRating

\* the player finishes last of three behind opponents of different ratings that
\* finished in the other order than the synthetic one, after a real deduction
C3_Witness ==
    /\ Finished
    /\ FinishesLast(Inputs.finish_order, player_index)
    /\ Cardinality(DOMAIN ratings) >= 3
    /\ Inputs.finish_order #
         synthetic_last_place_finish_order(Cardinality(DOMAIN ratings), player_index)
    /\ ratings[Inputs.finish_order[1]] # ratings[Inputs.finish_order[2]]
    /\ last_delta < 0

\* C4: every value calculate_trophies returns, the non-finisher case included,
\* is within [CLAMP_MIN, CLAMP_MAX].
C4_TrophyDeltaWithinClamp ==
    (CallIs("calculate_trophies") /\ ~Raised(Called.ret)) =>
        /\ Get(Called.ret.val) >= TrophyConfig.CLAMP_MIN
        /\ Get(Called.ret.val) <= TrophyConfig.CLAMP_MAX

\* the favourite of an 8-player lobby, absent from the finish order and placed
\* behind everyone by place_index_for_i, is clamped up to CLAMP_MIN
C4_Witness ==
    /\ CallIs("calculate_trophies")
    /\ ~Raised(Called.ret)
    /\ ~Contains(Called.finish_order, player_index)
    /\ Get(Called.ret.val) = TrophyConfig.CLAMP_MIN

\* C5: new_rank is the rank label of the rating the player holds once the
\* pre-deduction and the settlement have both been applied (start rating +
\* actual delta), and promoted / demoted are derived from that label.
C5_NewRankIsRankOfPostRaceRating ==
    Finished =>
        /\ trophies = ratings[player_index] + Results.trophies_actual
        /\ Results.new_rank = get_rank_for_trophies(trophies)

\* the elements of a finish order before player p (none if p is absent)
Before(order, p) ==
    {order[q] : q \in {q \in 1..Len(order) : \E r \in 1..Len(order) : order[r] = p /\ q < r}}

\* C6: calculate_last_place_delta equals calculate_trophies on every finish
\* order in which the player is last, and the trophy delta depends on the
\* finish order only through the set of opponents that finished before the
\* player.
C6_DeltaDependsOnlyOnWhoFinishedBefore ==
    (CallIs("calculate_trophies") /\ Contains(Called.finish_order, player_index)) =>
        /\ FinishesLast(Called.finish_order, player_index) =>
             Called.ret = calculate_last_place_delta(player_index, ratings, TrophyConfig)
        /\ IsSmallLobby =>
             \A other \in Perms(DOMAIN ratings) :
                 Before(other, player_index) = Before(Called.finish_order, player_index) =>
                     calculate_trophies(player_index, other, ratings, TrophyConfig, None)
                         = Called.ret

\* the player last of three, behind opponents of different ratings that finished
\* in the other order than the synthetic one, with a non-zero delta
C6_Witness ==
    /\ CallIs("calculate_trophies")
    /\ FinishesLast(Called.finish_order, player_index)
    /\ Cardinality(DOMAIN ratings) >= 3
    /\ Called.finish_order #
         synthetic_last_place_finish_order(Cardinality(DOMAIN ratings), player_index)
    /\ ratings[Called.finish_order[1]] # ratings[Called.finish_order[2]]
    /\ Get(Called.ret.val) < 0

\* the rewards of the finished race had the booster flags been cb and xb
RewardsWith(cb, xb) ==
    Get(compute_race_rewards_with_prededuction(
            [Inputs EXCEPT !.has_coin_booster = cb, !.has_exp_booster = xb],
            TrophyConfig, coin_cfg, exp_cfg).val)

\* C7 as stated: with the coin booster on the coins are exactly 2 times the
\* coins with it off, and with the exp booster on the exp is exactly 2 times
\* the exp with it off, all other inputs being identical.
C7_BoosterExactlyDoubles ==
    Finished =>
        /\ Inputs.has_coin_booster =>
             Results.coins = 2 * RewardsWith(FALSE, Inputs.has_exp_booster).coins
        /\ Inputs.has_exp_booster =>
             Results.exp = 2 * RewardsWith(Inputs.has_coin_booster, FALSE).exp

\* C7 amended: the exp with the exp booster on is exactly 2 times the exp with
\* it off; the coins with the coin booster on are the doubled amount rounded
\* once, which is within round_to of 2 times the coins with it off.
C7_BoosterDoublesBeforeRounding ==
    Finished =>
        /\ Inputs.has_coin_booster =>
             Abs(Results.coins - 2 * RewardsWith(FALSE, Inputs.has_exp_booster).coins)
                 <= coin_cfg.round_to
        /\ Inputs.has_exp_booster =>
             Results.exp = 2 * RewardsWith(Inputs.has_coin_booster, FALSE).exp

\* both boosters on in a lobby whose difficulty multiplier is not 1.0, the
\* boosted coins one rounding step away from twice the unboosted coins
C7_Witness ==
    /\ Finished
    /\ Inputs.has_coin_booster
    /\ Inputs.has_exp_booster
    /\ Results.exp > 0
    /\ Abs(Results.coins - 2 * RewardsWith(FALSE, TRUE).coins) = coin_cfg.round_to

\* the call's rank label has no caps in the table, or the place is outside them
BadLookup(table, rank_label, place) ==
    \/ rank_label \notin DOMAIN table
    \/ place < 1
    \/ place > Len(table[rank_label])

\* C8: calculate_coins, and calculate_exp in table mode, raise and return no
\* reward when the rank label has no entry in the cap table, the place is
\* outside 1..len(caps), or (coins) the cap table is unset.
C8_ConfigurationErrorsRaise ==
    /\ ( /\ CallIs("calculate_coins")
         /\ \/ IsNone(CoinTables[Called.table])
            \/ BadLookup(Get(CoinTables[Called.table]), Called.rank_label, Called.place) )
       => (Raised(Called.ret) /\ IsNone(Called.ret.val))
    /\ ( /\ CallIs("calculate_exp")
         /\ ~IsNone(ExpTables[Called.table])
         /\ ~IsNone(Called.rank_label)
         /\ BadLookup(Get(ExpTables[Called.table]), Get(Called.rank_label), Called.place) )
       => (Raised(Called.ret) /\ IsNone(Called.ret.val))

\* calculate_coins called on the reference table with a label that is no rank
C8_Witness ==
    /\ CallIs("calculate_coins")
    /\ Called.table = "reference"
    /\ Called.rank_label = "Wood"
    /\ Called.place = 1
    /\ Raised(Called.ret)

\* the condition raised when the finish order lacks the player and no
\* place_index_for_i is given
MissingPlayerCondition ==
    calculate_trophies(player_index,
                       SubSeq(synthetic_last_place_finish_order(Cardinality(DOMAIN ratings),
                                                                player_index),
                              1, Cardinality(DOMAIN ratings) - 1),
                       ratings, TrophyConfig, None).exc

\* C9: the condition of the input error (player missing from the finish order,
\* no place_index_for_i) differs from the condition of every configuration
\* error (unset coin cap table, missing rank-to-cap mapping, out-of-range
\* place).
C9_InputErrorDistinctFromConfigurationErrors ==
    ((CallIs("calculate_coins") \/ CallIs("calculate_exp")) /\ Raised(Called.ret)) =>
        Called.ret.exc # MissingPlayerCondition

\* the ordinal of a rank label in the rank table
Ordinal(label) == CHOOSE k \in 1..Len(RANK_THRESHOLDS) : RANK_THRESHOLDS[k][2] = label

\* C10: in every result of the orchestrator promoted and demoted are never
\* both true; promoted holds exactly when the ordinal of new_rank is strictly
\* greater than that of old_rank, demoted exactly when it is strictly lesser,
\* and both are false when the two labels are the same.
C10_PromotionFlagsFollowRankOrdinals ==
    (CallIs("compute_race_rewards_with_prededuction") /\ ~Raised(Called.ret)) =>
        LET r == Get(Called.ret.val)
        IN  /\ ~(r.promoted /\ r.demoted)
            /\ r.promoted <=> Ordinal(r.new_rank) > Ordinal(r.old_rank)
            /\ r.demoted <=> Ordinal(r.new_rank) < Ordinal(r.old_rank)
            /\ r.new_rank = r.old_rank => (~r.promoted /\ ~r.demoted)

\* a result that demotes: the rank after the race is below the rank before
C10_Witness ==
    /\ CallIs("compute_race_rewards_with_prededuction")
    /\ ~Raised(Called.ret)
    /\ Get(Called.ret.val).demoted
    /\ ~Get(Called.ret.val).promoted
    /\ Get(Called.ret.val).new_rank # Get(Called.ret.val).old_rank

\* C11: compute_race_rewards_with_prededuction leaves the shared coin and exp
\* configuration instances (and the ratings) as they were, whatever the booster
\* flags, and a later call with the inputs of the first call returns the
\* result of the first call
C11_SharedConfigsUntouched ==
    [][ /\ coin_cfg' = coin_cfg
        /\ exp_cfg' = exp_cfg
        /\ ratings' = ratings
        /\ (phase' = "recalled" /\ inp' = Some(Get(call').inp)) => out' = Some(Get(call').ret) ]_vars

\* a boosted call against a table-less xcfg repeated with the same inputs
C11_Witness ==
    /\ phase = "recalled"
    /\ inp = Some(Get(call).inp)
    /\ Get(inp).has_coin_booster /\ Get(inp).has_exp_booster
    /\ IsNone(exp_cfg.rank_place_caps)
    /\ ~Raised(Get(out))
    /\ out = Some(Get(call).ret)

\* C12: whenever calculate_coins or calculate_exp returns, the value is a
\* non-negative integer, and the coin value is a multiple of round_to
C12_PayoutsNonNegativeCoinsRounded ==
    /\ (CallIs("calculate_coins") /\ ~Raised(Called.ret)) =>
           /\ Get(Called.ret.val) \in Nat
           /\ Get(Called.ret.val) % CoinConfig(None).round_to = 0
    /\ (CallIs("calculate_exp") /\ ~Raised(Called.ret)) => Get(Called.ret.val) \in Nat

\* a cap below zero paid out as 0 coins
C12_Witness ==
    /\ CallIs("calculate_coins")
    /\ Called.table = "negative" /\ Called.rank_label = "Unranked" /\ Called.place = 1
    /\ Called.ret = Return(0)

\* every player of the lobby has the same rating
EqualLobby == \A j, k \in DOMAIN ratings : ratings[j] = ratings[k]

\* an unboosted calculate_coins call that returned a cap of a table
UnboostedCoinsPaid ==
    /\ CallIs("calculate_coins")
    /\ ~Called.boosted
    /\ ~Raised(Called.ret)

\* the cap the call looked up
CapPaid == Get(CoinTables[Called.table])[Called.rank_label][Called.place]

C14_RankLookupMonotonicInclusive ==
    CallIs("get_rank_for_trophies") =>
        LET t == Called.trophies
            label == Get(Called.ret.val)
        IN  /\ ~IsNone(Called.before) =>
                  LET u == Get(Called.before).trophies
                      ulabel == Get(Get(Called.before).ret.val)
                  IN  /\ u <= t => Ordinal(ulabel) <= Ordinal(label)
                      /\ u >= t => Ordinal(ulabel) >= Ordinal(label)
            /\ \A k \in 1..Len(RANK_THRESHOLDS) :
                  /\ t = RANK_THRESHOLDS[k][1] => label = RANK_THRESHOLDS[k][2]
                  /\ (k > 1 /\ t = RANK_THRESHOLDS[k][1] - 1) => label = RANK_THRESHOLDS[k - 1][2]
            /\ t < RANK_THRESHOLDS[1][1] => label = RANK_THRESHOLDS[1][2]

\* 749 looked up, then 750: Bronze II, then Bronze III
C14_Witness ==
    /\ CallIs("get_rank_for_trophies")
    /\ Called.trophies = 750 /\ Called.ret = Return("Bronze III")
    /\ Called.before = Some([trophies |-> 749, ret |-> Return("Bronze II")])

\* the pre-deduction calculate_last_place_delta gives for the snapshot
LastPlaceDelta == Get(calculate_last_place_delta(player_index, ratings, TrophyConfig).val)

\* C15: with the default configuration the trophy delta of a player with no
\* opponent before them is >= 0 and that of a player who finishes last is
\* <= 0; hence the pre-deduction calculate_last_place_delta is never positive
C15_FirstGainsLastLoses ==
    /\ TrophyConfig.CLAMP_MIN <= 0 /\ 0 <= TrophyConfig.CLAMP_MAX
    /\ (CallIs("calculate_trophies") /\ ~Raised(Called.ret)) =>
          /\ finished_before_i(player_index, Called.finish_order, Called.place_index_for_i) = {}
                => Get(Called.ret.val) >= 0
          /\ FinishesLast(Called.finish_order, player_index) => Get(Called.ret.val) <= 0
    /\ CallIs("compute_race_rewards_with_prededuction") =>
          /\ Called.inp.last_place_delta_applied <= 0
          /\ LastPlaceDelta <= 0

\* a player who gains trophies by finishing first of a lobby in which the
\* pre-deduction takes trophies away
C15_Witness ==
    /\ CallIs("calculate_trophies")
    /\ Called.finish_order[1] = player_index
    /\ Len(Called.finish_order) = Cardinality(DOMAIN ratings)
    /\ ~Raised(Called.ret)
    /\ Get(Called.ret.val) > 0
    /\ LastPlaceDelta < 0

====
